---- MODULE Spec2Model ----
(***************************************************************************)
(* A model of s7client-ts: the S7Client connection lifecycle of            *)
(* src/src/index.ts (connect, autoConnect, the alive check, disconnect),   *)
(* its read/write operations, and the codec registry of                    *)
(* src/src/datatypes.ts.                                                   *)
(*                                                                         *)
(* The transport (node-snap7) is the environment: a handshake in flight    *)
(* ends in success or in failure, a DNS lookup likewise, and an            *)
(* established connection can be lost at any time.  Each JavaScript task   *)
(* (a method call with the microtasks it queues, a timer callback, a       *)
(* transport callback) is one action.                                      *)
(***************************************************************************)
EXTENDS Integers, Sequences, FiniteSets, Bags, TLC

VARIABLES
  opts,                \* this.opts, fixed at construction
  connected,           \* this.client.Connected()
  accepting,           \* environment: the PLC accepts handshakes from now on
  conns,               \* bag of connect() calls in flight
  aliveCheckInterval,  \* this._aliveCheckInterval: a handle, 0 is null
  intervals,           \* active setInterval timers: handle -> its closure's cnt
  retryTimeout,        \* this._retryTimeout: a handle, 0 is null
  timeouts,            \* pending setTimeout(_retry) timers: handle -> closure
  listeners,           \* autoConnect() closures, one 'disconnect' listener each:
                       \* retryDelay, and two history flags (fresh: a retry
                       \* connect has succeeded and no delay was scheduled
                       \* since; grown: a rejected retry has assigned retryDelay)
  ev                   \* observation of the last task: what it called and emitted

vars == <<opts, connected, accepting, conns, aliveCheckInterval, intervals,
          retryTimeout, timeouts, listeners, ev>>

----------------------------------------------------------------------------
(* Bounds of the model. *)

\* connect() calls of the caller in flight at once
MaxUserConnects == 1
\* reconnect chains alive at once (pending retry timers plus retry connects in flight)
MaxChains == 1
\* autoConnect() calls in one run
MaxAutoCalls == 1
\* with alivePkgCycle = false the cnt of an alive-check closure is never read:
\* it is counted up to this value and no further
MaxCnt == 1
\* largest connectionCheckInterval and maxRetryDelay drawn for the backoff function
MaxDelayOpt == 12

----------------------------------------------------------------------------
(* Small helpers. *)

Min(a, b) == IF a < b THEN a ELSE b

\* The smallest positive handle not in used.  A new timer's handle never equals
\* a handle that is still pending, nor one a field still holds after the call
\* (a field that the call overwrites holds the new handle only).
FreshHandle(used) == CHOOSE i \in 1..(Cardinality(used) + 1) :
                       i \notin used /\ \A j \in 1..(i - 1) : j \in used

\* f without key h
Without(f, h) == [x \in (DOMAIN f) \ {h} |-> f[x]]

\* f with key h set to v
With(f, h, v) == [x \in (DOMAIN f) \cup {h} |-> IF x = h THEN v ELSE f[x]]

----------------------------------------------------------------------------
(* The observation record: one per task. *)

NoEv == [op |-> "init", by |-> "none", k |-> 0, res |-> "none", was |-> FALSE,
         emits |-> <<>>, calls |-> <<>>, sched |-> <<>>, first |-> FALSE,
         from |-> 0, timer |-> 0, in |-> <<>>, plan |-> <<>>,
         answer |-> [err |-> 0, res |-> <<>>], out |-> <<>>, vars |-> <<>>,
         values |-> <<>>, error |-> [kind |-> "none", name |-> "", codes |-> <<>>]]

\* The mutable part of the client, threaded through the body of a handler.
Cur == [connected |-> connected, conns |-> conns,
        aliveCheckInterval |-> aliveCheckInterval, intervals |-> intervals,
        retryTimeout |-> retryTimeout, timeouts |-> timeouts,
        listeners |-> listeners,
        emits |-> <<>>, calls |-> <<>>, sched |-> <<>>, first |-> FALSE,
        from |-> 0, rejected |-> FALSE]

Commit(s, e) ==
  /\ connected' = s.connected
  /\ conns' = s.conns
  /\ aliveCheckInterval' = s.aliveCheckInterval
  /\ intervals' = s.intervals
  /\ retryTimeout' = s.retryTimeout
  /\ timeouts' = s.timeouts
  /\ listeners' = s.listeners
  /\ ev' = [e EXCEPT !.emits = s.emits, !.calls = s.calls, !.sched = s.sched,
                     !.first = s.first, !.from = s.from]
  /\ UNCHANGED <<opts, accepting>>

----------------------------------------------------------------------------
(* Backoff: index.ts 123-124. *)

\* random(1.3, 1.7, true), times ten
FactorLo10 == 13
FactorHi10 == 17

\* Math.floor in the place of Math.round.
Floored(d) == {n \in 0..(2 * d + 1) :
                 /\ 10 * n <= FactorHi10 * d
                 /\ FactorLo10 * d < 10 * n + 10}

\* Math.round(d * f) for some f in [1.3, 1.7]: n = floor(d*f + 1/2) for some f
\* iff n - 1/2 <= 1.7 d and 1.3 d < n + 1/2.
Rounded(d) == {n \in 0..(2 * d + 1) :
                 /\ 10 * n - 5 <= FactorHi10 * d
                 /\ FactorLo10 * d < 10 * n + 5}

\* if(retryDelay > maxRetryDelay) retryDelay = maxRetryDelay
Clamp(n, max) == IF n > max THEN max ELSE n

\* every value the catch handler of _retry can assign to retryDelay
NextDelays(d, max) == {Clamp(n, max) : n \in Rounded(d)}

----------------------------------------------------------------------------
(* Timers. *)

\* this._retryTimeout = setTimeout(_retry, d) (tracked), or a bare
\* setTimeout(_retry, d) whose handle is dropped.
SetTimeout(s, k, d, tracked) ==
  LET h == FreshHandle((DOMAIN s.timeouts)
                        \cup (IF tracked THEN {} ELSE {s.retryTimeout}))
  IN  [s EXCEPT !.timeouts = With(s.timeouts, h, k),
                !.retryTimeout = IF tracked THEN h ELSE s.retryTimeout,
                !.sched = Append(s.sched, d),
                !.first = s.listeners[k].fresh,
                !.listeners[k].fresh = FALSE]

\* h && clearTimeout(h)
ClearTimeout(s, h) == [s EXCEPT !.timeouts = Without(s.timeouts, h)]

\* h && clearInterval(h)
ClearInterval(s, h) == [s EXCEPT !.intervals = Without(s.intervals, h)]

\* A connect() that resolves without starting the alive check.
SetupAliveCheckSkipped(s) == s

\* An alive check that is started without clearing the previous one.
SetupAliveCheckNoClear(s) ==
  LET h == FreshHandle(DOMAIN s.intervals)
  IN  [s EXCEPT !.intervals = With(s.intervals, h, 1),
                !.aliveCheckInterval = h]

\* _setupAliveCheck(): index.ts 148-166 (the timer's callback is AliveTick)
SetupAliveCheck(s) ==
  LET s1 == ClearInterval(s, s.aliveCheckInterval)
      h  == FreshHandle(DOMAIN s1.intervals)
  IN  [s1 EXCEPT !.intervals = With(s1.intervals, h, 1),
                 !.aliveCheckInterval = h]

----------------------------------------------------------------------------
(* connect(): index.ts 85-108. *)

\* connect() without its isConnected() guard.
ConnectCallUnguarded(s, c) ==
  [s EXCEPT !.conns = @ (+) SetToBag({[c EXCEPT !.stage = "handshake"]}),
            !.calls = Append(@, "ConnectTo"),
            !.rejected = FALSE]

\* The synchronous part of connect() called by c: rejected at once when
\* connected, otherwise the lookup or the handshake is started.
ConnectCall(s, c) ==
  IF s.connected
    THEN [s EXCEPT !.rejected = TRUE]
    ELSE IF opts.ipv4
      THEN [s EXCEPT !.conns = @ (+) SetToBag({[c EXCEPT !.stage = "handshake"]}),
                     !.calls = Append(@, "ConnectTo"),
                     !.rejected = FALSE]
      ELSE [s EXCEPT !.conns = @ (+) SetToBag({[c EXCEPT !.stage = "dns"]}),
                     !.calls = Append(@, "dnsLookup"),
                     !.rejected = FALSE]

\* The catch handler of _retry: index.ts 122-126.  n is Math.round(retryDelay * f).
CatchRetry(s, k, n) ==
  LET d  == Clamp(n, opts.maxRetryDelay)
      s1 == [s EXCEPT !.listeners[k].retryDelay = d,
                      !.listeners[k].grown = TRUE,
                      !.from = s.listeners[k].retryDelay]
  IN  SetTimeout(s1, k, d, TRUE)

\* A catch block that rethrows and schedules nothing.
CatchAutoGivesUp(s, k) == s

\* The catch block of autoConnect: index.ts 137-140.
CatchAuto(s, k) == SetTimeout(s, k, s.listeners[k].retryDelay, FALSE)

\* What a rejection of connect() runs in its caller.
OnReject(s, c, n) ==
  CASE c.by = "retry" -> CatchRetry(s, c.k, n)
    [] c.by = "auto"  -> CatchAuto(s, c.k)
    [] OTHER          -> s

\* _retry(): index.ts 120-127.
Retry(s, k, n) ==
  LET c  == [by |-> "retry", k |-> k, stage |-> "new"]
      s1 == ConnectCall(s, c)
  IN  IF s1.rejected THEN OnReject(s1, c, n) ELSE s1

\* A listener that schedules _retry after the current delay instead of running it.
RECURSIVE EmitDisconnectDelayed(_, _, _)
EmitDisconnectDelayed(s, k, n) ==
  IF k > Len(s.listeners)
    THEN [s EXCEPT !.emits = Append(@, "disconnect_false")]
    ELSE EmitDisconnectDelayed(
           SetTimeout(s, k, s.listeners[k].retryDelay, TRUE), k + 1, n)

\* emit('disconnect', false): every autoConnect listener runs _retry().
RECURSIVE EmitDisconnectAuto(_, _, _)
EmitDisconnectAuto(s, k, n) ==
  IF k > Len(s.listeners)
    THEN [s EXCEPT !.emits = Append(@, "disconnect_false")]
    ELSE EmitDisconnectAuto(Retry(s, k, n), k + 1, n)

\* A tick that emits the notification and leaves its timer running.
AliveLostKeepsTimer(s) == EmitDisconnectAuto(s, 1, 0)

\* The alive check found the transport disconnected: index.ts 162-164.
AliveLost(s) ==
  LET s1 == EmitDisconnectAuto(s, 1, 0)
  IN  ClearInterval(s1, s1.aliveCheckInterval)

\* connect() calls of the caller in flight
NUser == BagCardinality(conns)
         - BagCardinality([c \in {x \in DOMAIN conns : x.by # "user"} |-> conns[c]])

\* reconnect chains: the pending retry timers, and the connect() calls of
\* autoConnect and of _retry in flight
NChains == Cardinality(DOMAIN timeouts) + BagCardinality(conns) - NUser

----------------------------------------------------------------------------
(* The actions. *)

\* The caller calls connect().
Connect ==
  LET c == [by |-> "user", k |-> 0, stage |-> "new"]
      s == ConnectCall(Cur, c)
  IN  /\ connected \/ NUser < MaxUserConnects
      /\ Commit(s, [NoEv EXCEPT !.op = "connect", !.by = "user",
                                !.was = connected,
                                !.res = IF s.rejected THEN "AlreadyConnected"
                                        ELSE "pending"])

\* dns.lookup calls back: index.ts 381-392, then 91-92.
DnsDone(c, ok) ==
  /\ BagIn(c, conns) /\ c.stage = "dns"
  /\ LET s0 == [Cur EXCEPT !.conns = @ (-) SetToBag({c})]
     IN  IF ok
           THEN Commit([s0 EXCEPT
                          !.conns = @ (+) SetToBag({[c EXCEPT !.stage = "handshake"]}),
                          !.calls = Append(@, "ConnectTo")],
                       [NoEv EXCEPT !.op = "dns", !.by = c.by, !.k = c.k,
                                    !.was = connected, !.res = "ok"])
           ELSE \E n \in IF c.by = "retry" THEN Rounded(listeners[c.k].retryDelay)
                         ELSE {0} :
                  Commit(OnReject(s0, c, n),
                         [NoEv EXCEPT !.op = "dns", !.by = c.by, !.k = c.k,
                                      !.was = connected, !.res = "error"])

\* ConnectTo calls back: index.ts 92-106.
HandshakeDone(c, ok) ==
  /\ BagIn(c, conns) /\ c.stage = "handshake"
  /\ LET s0 == [Cur EXCEPT !.conns = @ (-) SetToBag({c})]
     IN  IF ok
           THEN LET s1 == SetupAliveCheck([s0 EXCEPT !.connected = TRUE])
                    s2 == IF c.by = "retry"
                            THEN [s1 EXCEPT !.listeners[c.k].fresh = TRUE]
                            ELSE s1
                IN  Commit(s2, [NoEv EXCEPT !.op = "handshake", !.by = c.by,
                                            !.k = c.k, !.was = connected,
                                            !.res = "ok"])
           ELSE \E n \in IF c.by = "retry" THEN Rounded(listeners[c.k].retryDelay)
                         ELSE {0} :
                  Commit(OnReject([s0 EXCEPT !.emits = Append(@, "connect_error")],
                                  c, n),
                         [NoEv EXCEPT !.op = "handshake", !.by = c.by, !.k = c.k,
                                      !.was = connected, !.res = "error"])

\* The caller calls autoConnect(): index.ts 117-142.
AutoConnect ==
  LET k  == Len(listeners) + 1
      s0 == [Cur EXCEPT !.listeners =
               Append(@, [retryDelay |-> opts.connectionCheckInterval,
                          fresh |-> FALSE, grown |-> FALSE])]
      c  == [by |-> "auto", k |-> k, stage |-> "new"]
  IN  /\ Len(listeners) < MaxAutoCalls
      /\ connected \/ NChains < MaxChains
      /\ IF connected
           THEN Commit([s0 EXCEPT !.calls = Append(@, "GetCpuInfo")],
                       [NoEv EXCEPT !.op = "autoConnect", !.by = "user", !.k = k,
                                    !.was = TRUE, !.res = "cpuInfo"])
           ELSE Commit(ConnectCall(s0, c),
                       [NoEv EXCEPT !.op = "autoConnect", !.by = "user", !.k = k,
                                    !.was = FALSE, !.res = "pending"])

\* A tick of the alive-check interval h: index.ts 151-165.  t is the number
\* of the tick for the observation (0: not counted); the code has no such
\* number, its cnt is intervals[h].
AliveTickAt(h, t) ==
  /\ h \in DOMAIN intervals
  /\ connected \/ NChains + Len(listeners) <= MaxChains
  /\ LET cnt1  == intervals[h] + 1
         probe == opts.alivePkg /\ cnt1 >= opts.alivePkgCycle
         s1    == [Cur EXCEPT !.intervals[h] = IF probe THEN 0 ELSE (IF opts.alivePkg THEN cnt1
                                                ELSE Min(cnt1, MaxCnt)),
                              !.calls = IF probe THEN Append(@, "PlcStatus") ELSE @]
         e     == [NoEv EXCEPT !.op = "tick", !.timer = h, !.was = connected,
                               !.k = t]
     IN  IF connected
           THEN Commit(s1, [e EXCEPT !.res = "alive"])
           ELSE Commit(AliveLost(s1), [e EXCEPT !.res = "lost"])

AliveTick(h) == AliveTickAt(h, 0)

\* The caller calls disconnect(): index.ts 172-177.  emit('disconnect', true)
\* runs every listener, and none of them does anything (!manual is false).
DisconnectCall(s) ==
  LET s1 == ClearInterval(s, s.aliveCheckInterval)
      s2 == ClearTimeout(s1, s.retryTimeout)
  IN  [s2 EXCEPT !.calls = Append(@, "Disconnect"),
                 !.connected = FALSE,
                 !.emits = Append(@, "disconnect_true")]

Disconnect ==
  Commit(DisconnectCall(Cur), [NoEv EXCEPT !.op = "disconnect", !.by = "user",
                                           !.was = connected, !.res = "ok"])

\* The retry timer h fires and runs _retry(): index.ts 120-127.
RetryFire(h) ==
  /\ h \in DOMAIN timeouts
  /\ LET k  == timeouts[h]
         s0 == [Cur EXCEPT !.timeouts = Without(@, h)]
     IN  \E n \in Rounded(listeners[k].retryDelay) :
           Commit(Retry(s0, k, n),
                  [NoEv EXCEPT !.op = "retry", !.by = "retry", !.k = k,
                               !.timer = h, !.was = connected,
                               !.res = IF connected THEN "AlreadyConnected"
                                       ELSE "pending"])

\* The environment: the connection to the PLC is lost.
TransportLoss ==
  /\ connected
  /\ connected' = FALSE
  /\ ev' = [NoEv EXCEPT !.op = "loss", !.was = TRUE]
  /\ UNCHANGED <<opts, accepting, conns, aliveCheckInterval, intervals,
                 retryTimeout, timeouts, listeners>>

----------------------------------------------------------------------------
(* datatypes.ts: the areas, the word lengths and the codec registry. *)

S7AreaPE == 129
S7AreaPA == 130
S7AreaMK == 131
S7AreaDB == 132
S7AreaCT == 28
S7AreaTM == 29

\* S7Area['S7Area' + v.area.toUpperCase()]
S7Area(area) ==
  CASE area = "pe" -> S7AreaPE
    [] area = "pa" -> S7AreaPA
    [] area = "mk" -> S7AreaMK
    [] area = "db" -> S7AreaDB
    [] area = "ct" -> S7AreaCT
    [] area = "tm" -> S7AreaTM

S7WLBit == 1
S7WLByte == 2
S7WLWord == 4
S7WLDWord == 6
S7WLReal == 8

\* A JavaScript value: its typeof and, as a number, the boolean (0, 1), the
\* number, or the char code of a one-character string.
JsBool(b) == <<"boolean", IF b THEN 1 ELSE 0>>
JsNum(n) == <<"number", n>>
JsChar(c) == <<"string", c>>
\* A number of 32 bits is kept as its two halves, the number being
\* hi * 65536 + lo with lo in 0..65535 (the model checker's integers end at
\* 2^31 - 1); hi is in 0..65535 for a DWORD and in -32768..32767 for a DINT.
JsNum32(hi, lo) == <<"number", hi, lo>>
\* A number that a float of 32 bits holds exactly, as its sign bit, its biased
\* exponent of 8 bits and its fraction of 23 bits.
JsReal(s, e, m) == <<"number", s, e, m>>
Undefined == <<"undefined", 0>>

Pow2(n) == 2 ^ n

\* A Buffer is a sequence of bytes; offset o is element o + 1.
\* buffer.readUInt8(o), readUInt16BE(o), readUInt32BE(o)
RECURSIVE ReadUIntBE(_, _, _)
ReadUIntBE(buffer, o, bytes) ==
  IF bytes = 0 THEN 0
  ELSE ReadUIntBE(buffer, o, bytes - 1) * 256 + buffer[o + bytes]

\* buffer.readInt16BE(o), readInt32BE(o): two's complement
ReadIntBE(buffer, o, bytes) ==
  LET u == ReadUIntBE(buffer, o, bytes)
  IN  IF u >= Pow2(8 * bytes - 1) THEN u - Pow2(8 * bytes) ELSE u

\* The bytes of v with the least significant first.
WriteUIntLE(v, bytes) ==
  [i \in 1..bytes |-> (v \div Pow2(8 * (i - 1))) % 256]

\* b.writeUInt8(v), writeUInt16BE(v), writeUInt32BE(v) on Buffer.alloc(bytes)
WriteUIntBE(v, bytes) ==
  [i \in 1..bytes |-> (v \div Pow2(8 * (bytes - i))) % 256]

\* b.writeInt16BE(v), writeInt32BE(v)
WriteIntBE(v, bytes) ==
  WriteUIntBE(IF v < 0 THEN v + Pow2(8 * bytes) ELSE v, bytes)

\* Datatypes[type].bytes
Bytes(type) ==
  CASE type \in {"BOOL", "BYTE", "CHAR"} -> 1
    [] type \in {"WORD", "INT"} -> 2
    [] type \in {"DWORD", "DINT", "REAL"} -> 4

\* Datatypes[type].S7WordLen
WordLenOf(type) ==
  CASE type = "BOOL" -> S7WLBit
    [] type \in {"BYTE", "CHAR"} -> S7WLByte
    [] type \in {"WORD", "INT"} -> S7WLWord
    [] type \in {"DWORD", "DINT"} -> S7WLDWord
    [] type = "REAL" -> S7WLReal

\* Datatypes[type].parser(buffer, offset, bit)
Parser(type, buffer, offset, bit) ==
  CASE type = "BOOL" ->
         JsBool(((buffer[offset + 1] \div Pow2(bit % 32)) % 2) = 1)
    [] type \in {"BYTE", "WORD"} ->
         JsNum(ReadUIntBE(buffer, offset, Bytes(type)))
    [] type = "INT" -> JsNum(ReadIntBE(buffer, offset, 2))
    [] type = "DWORD" ->
         JsNum32(ReadUIntBE(buffer, offset, 2), ReadUIntBE(buffer, offset + 2, 2))
    [] type = "DINT" ->
         JsNum32(ReadIntBE(buffer, offset, 2), ReadUIntBE(buffer, offset + 2, 2))
    [] type = "REAL" ->
         JsReal(buffer[offset + 1] \div 128,
                (buffer[offset + 1] % 128) * 2 + buffer[offset + 2] \div 128,
                (buffer[offset + 2] % 128) * 65536 + buffer[offset + 3] * 256
                  + buffer[offset + 4])
    [] type = "CHAR" -> JsChar(buffer[offset + 1] % 128)

\* Datatypes[type].formatter(value)
Formatter(type, value) ==
  CASE type = "BOOL" -> IF value[2] # 0 THEN <<1>> ELSE <<0>>
    [] type \in {"BYTE", "WORD"} -> WriteUIntBE(value[2], Bytes(type))
    [] type = "INT" -> WriteIntBE(value[2], 2)
    [] type = "DWORD" -> WriteUIntBE(value[2], 2) \o WriteUIntBE(value[3], 2)
    [] type = "DINT" -> WriteIntBE(value[2], 2) \o WriteUIntBE(value[3], 2)
    [] type = "REAL" ->
         <<value[2] * 128 + value[3] \div 2,
           (value[3] % 2) * 128 + value[4] \div 65536,
           (value[4] \div 256) % 256,
           value[4] % 256>>
    [] type = "CHAR" -> <<value[2] % 256>>

----------------------------------------------------------------------------
(* readDB, readVars, writeVars: index.ts 217-318. *)

\* descriptors in one call
MaxVars == 2

\* new Error(`${name} Errors: ` + s7err.join('; ')) for a list of item codes,
\* new Error(`${name}: ` + ErrorText(s7err)) for one transport code
GetErr(kind, s7err) == [kind |-> kind, name |-> opts.name, codes |-> s7err]

\* A planner that leaves the width of the types out of the end of the range.
RECURSIVE DBRangeNoWidth(_, _, _, _)
DBRangeNoWidth(vs, i, offset, end) ==
  IF i > Len(vs) THEN [offset |-> offset, end |-> end]
  ELSE DBRangeNoWidth(vs, i + 1,
                      IF vs[i].start < offset THEN vs[i].start ELSE offset,
                      IF end < vs[i].start THEN vs[i].start ELSE end)

\* the planner loop of readDB: index.ts 221-228
RECURSIVE DBRange(_, _, _, _)
DBRange(vs, i, offset, end) ==
  IF i > Len(vs) THEN [offset |-> offset, end |-> end]
  ELSE DBRange(vs, i + 1,
               IF vs[i].start < offset THEN vs[i].start ELSE offset,
               IF end < vs[i].start + Bytes(vs[i].type)
                 THEN vs[i].start + Bytes(vs[i].type) ELSE end)

\* Number.MAX_SAFE_INTEGER; the model checker's integers are 32 bits wide, so
\* this is their largest value, above every start a descriptor has
MaxSafeInteger == 2147483647

\* readDB(DBNr, vars) with the transport's answer (err, res): index.ts 217-239
ReadDBEv(DBNr, vs, err, res) ==
  LET e == [NoEv EXCEPT !.op = "readDB", !.by = "user", !.was = connected,
                        !.in = vs]
      r == DBRange(vs, 1, MaxSafeInteger, 0)
      call == [DBNr |-> DBNr, offset |-> r.offset, length |-> r.end - r.offset]
      out == [i \in 1..Len(vs) |->
                [vs[i] EXCEPT !.value =
                   Parser(vs[i].type, res, vs[i].start - r.offset, vs[i].bit)]]
  IN  IF Len(vs) = 0
        THEN [e EXCEPT !.res = "resolved"]
        ELSE IF err # 0
          THEN [e EXCEPT !.calls = <<"DBRead">>, !.plan = <<call>>,
                         !.answer = [err |-> err, res |-> <<>>],
                         !.res = "rejected", !.error = GetErr("transport", <<err>>)]
          ELSE [e EXCEPT !.calls = <<"DBRead">>, !.plan = <<call>>,
                         !.answer = [err |-> 0, res |-> res],
                         !.res = "resolved", !.out = out, !.vars = out,
                         !.values = out]

\* An item that addresses a BOOL by its byte.
ItemByteStart(v) ==
  [Area |-> S7Area(v.area), WordLen |-> WordLenOf(v.type), DBNumber |-> v.dbnr,
   Start |-> v.start, Amount |-> 1]

\* one item of toRead / toWrite: index.ts 254-263, 293-303
Item(v) ==
  [Area |-> S7Area(v.area), WordLen |-> WordLenOf(v.type), DBNumber |-> v.dbnr,
   Start |-> IF v.type = "BOOL" THEN v.start * 8 + v.bit ELSE v.start,
   Amount |-> 1]

\* A demultiplexing loop that stops at the first failing item.
DemuxStopsAtFirstError(st, res, i, read) ==
  IF i > Len(st.vars) THEN st
  ELSE IF res[i].Result # 0
    THEN [st EXCEPT !.errs = Append(@, res[i].Result)]
    ELSE st

\* the demultiplexing loop of readVars (index.ts 268-273) and of writeVars
\* (310-313): st.errs collects the failing codes, st.vars the callers' objects,
\* st.values the 'value' notifications
RECURSIVE Demux(_, _, _, _)
Demux(st, res, i, read) ==
  IF i > Len(st.vars) THEN st
  ELSE IF res[i].Result # 0
    THEN Demux([st EXCEPT !.errs = Append(@, res[i].Result)], res, i + 1, read)
    ELSE IF read
      THEN LET v == [st.vars[i] EXCEPT !.value =
                       Parser(st.vars[i].type, res[i].Data, 0, 0)]
           IN  Demux([st EXCEPT !.vars[i] = v, !.values = Append(@, v)],
                     res, i + 1, read)
      ELSE Demux(st, res, i + 1, read)

\* the callback of ReadMultiVars / WriteMultiVars: index.ts 265-276, 306-316
MultiVarsEv(e, vs, err, res, read) ==
  LET st == Demux([vars |-> vs, errs |-> <<>>, values |-> <<>>], res, 1, read)
  IN  IF err # 0
        THEN [e EXCEPT !.answer = [err |-> err, res |-> <<>>],
                       !.res = "rejected", !.error = GetErr("transport", <<err>>)]
        ELSE IF Len(st.errs) # 0
          THEN [e EXCEPT !.answer = [err |-> 0, res |-> res],
                         !.res = "rejected", !.error = GetErr("items", st.errs),
                         !.vars = st.vars, !.values = st.values]
          ELSE [e EXCEPT !.answer = [err |-> 0, res |-> res],
                         !.res = "resolved", !.out = st.vars,
                         !.vars = st.vars, !.values = st.values]

\* A readVars that asks isConnected() first and rejects without a transport call.
ReadVarsEvGated(vs, err, res) ==
  LET toRead == [i \in 1..Len(vs) |-> Item(vs[i])]
      e == [NoEv EXCEPT !.op = "readVars", !.by = "user", !.was = connected,
                        !.in = vs, !.vars = vs]
  IN  IF connected
        THEN MultiVarsEv([e EXCEPT !.calls = <<"ReadMultiVars">>, !.plan = toRead],
                         vs, err, res, TRUE)
        ELSE [e EXCEPT !.res = "rejected",
                       !.error = GetErr("notConnected", <<>>)]

\* readVars(vars) with the transport's answer: index.ts 251-278
ReadVarsEv(vs, err, res) ==
  LET toRead == [i \in 1..Len(vs) |-> Item(vs[i])]
      e == [NoEv EXCEPT !.op = "readVars", !.by = "user", !.was = connected,
                        !.in = vs, !.vars = vs,
                        !.calls = <<"ReadMultiVars">>, !.plan = toRead]
  IN  MultiVarsEv(e, vs, err, res, TRUE)

\* A writeVars that notifies 'value' for every descriptor it returns.
WriteVarsEvNotifying(vs, err, res) ==
  LET toWrite == [i \in 1..Len(vs) |->
                    [item |-> Item(vs[i]),
                     Data |-> Formatter(vs[i].type, vs[i].value)]]
      e == [NoEv EXCEPT !.op = "writeVars", !.by = "user", !.was = connected,
                        !.in = vs, !.vars = vs,
                        !.calls = <<"WriteMultiVars">>, !.plan = toWrite]
      r == MultiVarsEv(e, vs, err, res, FALSE)
  IN  [r EXCEPT !.values = r.out]

\* writeVars(vars) with the transport's answer: index.ts 291-318
WriteVarsEv(vs, err, res) ==
  LET toWrite == [i \in 1..Len(vs) |->
                    [item |-> Item(vs[i]),
                     Data |-> Formatter(vs[i].type, vs[i].value)]]
      e == [NoEv EXCEPT !.op = "writeVars", !.by = "user", !.was = connected,
                        !.in = vs, !.vars = vs,
                        !.calls = <<"WriteMultiVars">>, !.plan = toWrite]
  IN  MultiVarsEv(e, vs, err, res, FALSE)

\* readVar(v) with the transport's answer: index.ts 330-334.  A dbnr that is
\* missing is 0 here: !v.dbnr holds of undefined and of 0 alike.
ReadVarEv(v, err, res) ==
  IF v.area = "db" /\ v.dbnr = 0
    THEN [NoEv EXCEPT !.op = "readVar", !.by = "user", !.was = connected,
                      !.in = <<v>>, !.vars = <<v>>, !.res = "rejected",
                      !.error = [kind |-> "dbnrMandatory", name |-> "",
                                 codes |-> <<>>]]
    ELSE [ReadVarsEv(<<v>>, err, res) EXCEPT !.op = "readVar"]

\* writeVar(v) with the transport's answer: index.ts 347-349
WriteVarEv(v, err, res) ==
  [WriteVarsEv(<<v>>, err, res) EXCEPT !.op = "writeVar"]

\* A read or write changes nothing of the client but what it reports.
Observe(e) ==
  /\ ev' = e
  /\ UNCHANGED <<opts, connected, accepting, conns, aliveCheckInterval,
                 intervals, retryTimeout, timeouts, listeners>>

ReadDB(DBNr, vs, err, res) == Observe(ReadDBEv(DBNr, vs, err, res))

ReadVars(vs, err, res) == Observe(ReadVarsEv(vs, err, res))

WriteVars(vs, err, res) == Observe(WriteVarsEv(vs, err, res))

ReadVar(v, err, res) == Observe(ReadVarEv(v, err, res))

WriteVar(v, err, res) == Observe(WriteVarEv(v, err, res))

----------------------------------------------------------------------------
(* The lifecycle specification. *)

\* The options the lifecycle is explored under: a literal address and a
\* host name; an interval below and one above maxRetryDelay; the keep-alive
\* package off and on.
LifecycleOpts ==
  {o \in [name : {"S7PLC"}, ipv4 : BOOLEAN,
          connectionCheckInterval : {2, 3}, maxRetryDelay : {2, 4},
          alivePkg : BOOLEAN, alivePkgCycle : {2}] :
     /\ <<o.connectionCheckInterval, o.maxRetryDelay>> \in {<<2, 4>>, <<3, 2>>}}

Init ==
  /\ opts \in LifecycleOpts
  /\ connected = FALSE
  /\ accepting = FALSE
  /\ conns = EmptyBag
  /\ aliveCheckInterval = 0
  /\ intervals = <<>>
  /\ retryTimeout = 0
  /\ timeouts = <<>>
  /\ listeners = <<>>
  /\ ev = NoEv

Next ==
  \/ Connect
  \/ AutoConnect
  \/ Disconnect
  \/ TransportLoss
  \/ \E h \in DOMAIN intervals : AliveTick(h)
  \/ \E h \in DOMAIN timeouts : RetryFire(h)
  \/ \E c \in BagToSet(conns), ok \in BOOLEAN : DnsDone(c, ok)
  \/ \E c \in BagToSet(conns), ok \in BOOLEAN : HandshakeDone(c, ok)

Spec == Init /\ [][Next]_vars

----------------------------------------------------------------------------
(* Claims about the lifecycle. *)

\* The transport calls of a task that start a connection attempt.
ConnectCalls(calls) == SelectSeq(calls, LAMBDA x : x \in {"ConnectTo", "dnsLookup"})

\* C1: after disconnect() returns, no liveness-check timer and no
\* reconnect-retry timer of the client is pending.
C1_NoTimerAfterDisconnect ==
  ev.op = "disconnect" => (DOMAIN intervals = {} /\ DOMAIN timeouts = {})

\* C2: after a retry connect has succeeded, the first retry delay scheduled
\* afterwards starts over from the base interval: it is the base interval, or
\* the one backoff step from it that the failed first attempt makes, and is not
\* derived from the delays of the failures before the success.
C2_BackoffRestartsAfterSuccess ==
  (ev.first /\ ev.sched # <<>>) =>
     ev.sched[1] \in {opts.connectionCheckInterval}
                     \cup NextDelays(opts.connectionCheckInterval, opts.maxRetryDelay)

\* C3: a liveness tick that finds the transport disconnected emits exactly one
\* disconnect notification with manual = false and cancels the liveness timer,
\* so that no liveness timer is left to tick and notify again; this also when
\* an autoConnect listener reacts by starting a new connect.
C3_OneNotificationPerLoss ==
  (ev.op = "tick" /\ ev.res = "lost") =>
     /\ ev.emits = <<"disconnect_false">>
     /\ ev.timer \notin DOMAIN intervals
     /\ DOMAIN intervals = {}

C3_Witness ==
  /\ ev.op = "tick" /\ ev.res = "lost"
  /\ listeners # <<>>
  /\ \E c \in BagToSet(conns) : c.by = "retry"

\* C4: connect() called while the client is connected fails with the
\* already-connected error, issues no transport call, and leaves the
\* connection state and the timers unchanged.
C4_ConnectWhileConnected ==
  [][(Connect /\ connected) =>
       /\ ev'.res = "AlreadyConnected"
       /\ ev'.calls = <<>>
       /\ UNCHANGED <<connected, conns, aliveCheckInterval, intervals,
                      retryTimeout, timeouts, listeners>>]_vars

C4_Witness ==
  /\ ev.op = "connect" /\ ev.was /\ ev.res = "AlreadyConnected"
  /\ connected /\ aliveCheckInterval \in DOMAIN intervals

\* C5 as claimed: in auto-reconnect mode every disconnect notification with
\* manual = false schedules a retry timer, the first with the base interval as
\* its delay; one with manual = true schedules none and starts no connect.
C5_NotificationSchedulesRetry ==
  /\ ("disconnect_false" \in {ev.emits[i] : i \in DOMAIN ev.emits} /\ listeners # <<>>)
        => (ev.sched # <<>> /\ ev.sched[1] = opts.connectionCheckInterval)
  /\ ev.op = "disconnect" => (ev.sched = <<>> /\ ConnectCalls(ev.calls) = <<>>)

\* C5 as amended: a notification with manual = false makes every autoConnect
\* listener start a connect attempt at once and schedules no timer; a retry
\* timer is scheduled only by a task in which a connect() of autoConnect or of
\* _retry is rejected; after a rejected retry its delay is one backoff step
\* from the closure's previous delay, after autoConnect's own rejected attempt
\* it is the closure's current delay, which is the base interval unless a
\* retry of that closure was rejected before; a notification with
\* manual = true schedules no retry and starts no connect.
C5_NotificationRetriesAtOnce ==
  /\ (ev.op = "tick" /\ ev.res = "lost") =>
        /\ ev.sched = <<>>
        /\ Len(ConnectCalls(ev.calls)) = Len(listeners)
  /\ ev.sched # <<>> =>
        /\ ev.res \in {"error", "AlreadyConnected"}
        /\ ev.by \in {"auto", "retry"}
        /\ Len(ev.sched) = 1
        /\ ev.by = "retry" => ev.sched[1] \in NextDelays(ev.from, opts.maxRetryDelay)
        /\ ev.by = "auto" =>
             /\ ev.sched[1] = listeners[ev.k].retryDelay
             /\ ~listeners[ev.k].grown => ev.sched[1] = opts.connectionCheckInterval
  /\ ev.op = "disconnect" => (ev.sched = <<>> /\ ConnectCalls(ev.calls) = <<>>)

C5_Witness ==
  /\ ev.op = "tick" /\ ev.res = "lost" /\ listeners # <<>>
  /\ ConnectCalls(ev.calls) # <<>>
  /\ DOMAIN timeouts = {}

C12_ConnectNotification ==
  (ev.op = "handshake" /\ ev.res = "ok") =>
     Len(SelectSeq(ev.emits, LAMBDA x : x = "connect")) = 1

\* C13: disconnect() called twice in a row returns both times and leaves the
\* client Disconnected with no timer pending; the second call changes nothing
\* of the connection state.  Stated in the state the first call leaves, about
\* the state the second call makes of it.
C13_DisconnectTwice ==
  ev.op = "disconnect" =>
     LET s == DisconnectCall(Cur)
     IN  /\ ~s.connected
         /\ DOMAIN s.intervals = {} /\ DOMAIN s.timeouts = {}
         /\ s.connected = connected /\ s.conns = conns
         /\ s.intervals = intervals /\ s.timeouts = timeouts
         /\ s.aliveCheckInterval = aliveCheckInterval
         /\ s.retryTimeout = retryTimeout
         /\ s.listeners = listeners

\* C20: at most one liveness timer is active, and it is the one the client
\* holds the handle of; this also when several connect() calls are in flight
\* at once and each of them succeeds.
C20_OneAliveTimer ==
  /\ Cardinality(DOMAIN intervals) <= 1
  /\ DOMAIN intervals \subseteq {aliveCheckInterval}

\* A handshake that succeeded while the client was connected with a running
\* liveness timer: the second of two connect() calls in flight.
C20_Witness ==
  /\ ev.op = "handshake" /\ ev.res = "ok" /\ ev.was
  /\ connected /\ DOMAIN intervals = {aliveCheckInterval}

\* C21: every delay with which a reconnect retry is scheduled is at most
\* maxRetryDelay, for all option values: the retry that autoConnect() schedules
\* after its own failed attempt as well as every retry scheduled later.
C21_DelayAtMostMax ==
  \A i \in DOMAIN ev.sched : ev.sched[i] <= opts.maxRetryDelay

\* C22: once the client is connected, by a retry or by the caller's own
\* connect(), the reconnect loop is idle: while the transport is connected no
\* retry timer is pending; and a retry that does run and finds the client
\* connected (its connect() is rejected with "Already connected") arms no
\* timer and leaves the backoff delay of its closure as it was.
C22_ReconnectIdleWhileConnected ==
  [][/\ connected' => DOMAIN timeouts' = {}
     /\ (ev'.op = "retry" /\ ev'.res = "AlreadyConnected") =>
          /\ ev'.sched = <<>>
          /\ listeners'[ev'.k].retryDelay = listeners[ev'.k].retryDelay]_vars

----------------------------------------------------------------------------
(* The specification of the read and write operations: a client whose caller
   connects, disconnects, reads and writes (and never calls autoConnect). *)

IOOpts ==
  [name : {"S7PLC"}, ipv4 : {TRUE},
   connectionCheckInterval : {2}, maxRetryDelay : {4},
   alivePkg : {FALSE}, alivePkgCycle : {2}]

\* The descriptors drawn: those of the README and of the spec's examples, and
\* one more area and type.
IODescs ==
  {[type |-> "BOOL", area |-> "db", dbnr |-> 1, start |-> 5, bit |-> 2,
    value |-> JsBool(TRUE)],
   [type |-> "INT", area |-> "db", dbnr |-> 1, start |-> 13, bit |-> 0,
    value |-> JsNum(-2)],
   [type |-> "BOOL", area |-> "mk", dbnr |-> 0, start |-> 4, bit |-> 2,
    value |-> JsBool(FALSE)],
   [type |-> "BYTE", area |-> "pe", dbnr |-> 0, start |-> 0, bit |-> 0,
    value |-> JsNum(200)]}

IOLists == UNION {[1..n -> IODescs] : n \in 0..MaxVars}

\* The descriptors drawn for readVar and writeVar: those above, and one of the
\* data block area that carries no data block number.
IOSingles ==
  IODescs \cup {[type |-> "INT", area |-> "db", dbnr |-> 0, start |-> 13,
                 bit |-> 0, value |-> JsNum(-2)]}

\* The codes the transport answers with, 0 being success.
ErrCodes == {5, 10}

\* A buffer of n bytes b, b + 1, ...
Buf(b, n) == [i \in 1..n |-> (b + i - 1) % 256]

BufStarts == {4, 254}

\* The item results the transport can give for a batch.
ReadAnswers(vs) == [1..Len(vs) -> [Result : {0} \cup ErrCodes, b : BufStarts]]

ItemAnswer(v, a) == [Result |-> a.Result, Data |-> Buf(a.b, Bytes(v.type))]

WriteAnswers(vs) == [1..Len(vs) -> [Result : {0} \cup ErrCodes]]

\* A transport that is not connected answers every request with an error.
TransportErrs == IF connected THEN {0} \cup ErrCodes ELSE ErrCodes

InitIO ==
  /\ opts \in IOOpts
  /\ connected = FALSE
  /\ accepting = FALSE
  /\ conns = EmptyBag
  /\ aliveCheckInterval = 0
  /\ intervals = <<>>
  /\ retryTimeout = 0
  /\ timeouts = <<>>
  /\ listeners = <<>>
  /\ ev = NoEv

IOOps == {"readDB", "readVars", "writeVars"}

IOSingleOps == {"readVar", "writeVar"}

\* The caller awaits one read or write before it starts the next: a read or
\* write changes nothing but the observation, so no state of the client is lost.
IOIdle == ev.op \notin IOOps \cup IOSingleOps

NextIO ==
  \/ Connect
  \/ Disconnect
  \/ TransportLoss
  \/ \E h \in DOMAIN intervals : AliveTick(h)
  \/ \E c \in BagToSet(conns), ok \in BOOLEAN : HandshakeDone(c, ok)
  \/ /\ IOIdle
     /\ \E vs \in IOLists :
          \/ \E err \in TransportErrs \ {0} : ReadDB(102, vs, err, <<>>)
          \/ /\ 0 \in TransportErrs
             /\ \E b \in BufStarts :
                  LET r == DBRange(vs, 1, MaxSafeInteger, 0)
                  IN  ReadDB(102, vs, 0, Buf(b, r.end - r.offset))
  \/ /\ IOIdle
     /\ \E vs \in IOLists :
          \/ \E err \in TransportErrs \ {0} : ReadVars(vs, err, <<>>)
          \/ /\ 0 \in TransportErrs
             /\ \E a \in ReadAnswers(vs) :
                  ReadVars(vs, 0, [i \in 1..Len(vs) |-> ItemAnswer(vs[i], a[i])])
  \/ /\ IOIdle
     /\ \E vs \in IOLists :
          \/ \E err \in TransportErrs \ {0} : WriteVars(vs, err, <<>>)
          \/ /\ 0 \in TransportErrs
             /\ \E a \in WriteAnswers(vs) : WriteVars(vs, 0, a)
  \/ /\ IOIdle
     /\ \E v \in IOSingles :
          \/ \E err \in TransportErrs \ {0} : ReadVar(v, err, <<>>)
          \/ /\ 0 \in TransportErrs
             /\ \E a \in ReadAnswers(<<v>>) :
                  ReadVar(v, 0, <<ItemAnswer(v, a[1])>>)
  \/ /\ IOIdle
     /\ \E v \in IOSingles :
          \/ \E err \in TransportErrs \ {0} : WriteVar(v, err, <<>>)
          \/ /\ 0 \in TransportErrs
             /\ \E a \in WriteAnswers(<<v>>) : WriteVar(v, 0, a)

SpecIO == InitIO /\ [][NextIO]_vars

----------------------------------------------------------------------------
(* Claims about the read and write operations. *)

\* The transport primitive of an operation.
Primitive(op) ==
  CASE op = "readDB" -> "DBRead"
    [] op = "readVars" -> "ReadMultiVars"
    [] op = "writeVars" -> "WriteMultiVars"

\* C8 as claimed: readDB, readVars and writeVars invoke a read or write
\* primitive of the transport only while the client is connected.
C8_TransportCallOnlyWhileConnected ==
  (ev.op \in IOOps /\ ~ev.was) => ev.calls = <<>>

\* C8 as amended: the client asks for no connection state before a read or a
\* write: readVars and writeVars, and readDB with a non-empty list, invoke
\* their transport primitive exactly once, also while the client is not
\* connected.
C8_TransportCallInEveryState ==
  (ev.op \in IOOps /\ (ev.op = "readDB" => ev.in # <<>>)) =>
     ev.calls = <<Primitive(ev.op)>>

C8_Witness ==
  /\ ev.op = "readVars" /\ ~ev.was /\ ~connected
  /\ ev.in # <<>>
  /\ ev.calls = <<"ReadMultiVars">>

\* C9: readVars, writeVars and readDB called with an empty descriptor list
\* return an empty list and make no transport call.
C9_EmptyListNoTransportCall ==
  (ev.op \in IOOps /\ ev.in = <<>>) =>
     (ev.res = "resolved" /\ ev.out = <<>> /\ ev.calls = <<>>)

\* The non-zero item codes of a batch answer, in item order.
FailingCodes(res) ==
  SelectSeq([i \in 1..Len(res) |-> res[i].Result], LAMBDA c : c # 0)

\* C10: when the transport answers a readVars or writeVars batch and at least
\* one item code is non-zero, the call fails with an error listing every
\* failing item code in item order and returns no descriptor; when all item
\* codes are zero, it returns the full descriptor list in input order.
C10_BatchAllOrNothing ==
  (ev.op \in {"readVars", "writeVars"} /\ ev.answer.err = 0) =>
     IF FailingCodes(ev.answer.res) # <<>>
       THEN /\ ev.res = "rejected"
            /\ ev.error.kind = "items"
            /\ ev.error.codes = FailingCodes(ev.answer.res)
            /\ ev.out = <<>>
       ELSE /\ ev.res = "resolved"
            /\ Len(ev.out) = Len(ev.in)
            /\ \A i \in 1..Len(ev.in) :
                 [ev.out[i] EXCEPT !.value = Undefined]
                   = [ev.in[i] EXCEPT !.value = Undefined]
            /\ ev.op = "writeVars" => ev.out = ev.in

C10_Witness ==
  /\ ev.op = "readVars" /\ ev.answer.err = 0 /\ Len(ev.in) = 2
  /\ ev.answer.res[1].Result # 0
  /\ ev.answer.res[2].Result # 0
  /\ ev.answer.res[1].Result # ev.answer.res[2].Result
  /\ ev.error.codes = <<ev.answer.res[1].Result, ev.answer.res[2].Result>>

\* C14: readVar and writeVar both reject a descriptor of the data block area
\* that carries no data block number, before any transport call.
C14_DbnrValidated ==
  (ev.op \in IOSingleOps /\ ev.in[1].area = "db" /\ ev.in[1].dbnr = 0) =>
     (ev.res = "rejected" /\ ev.error.kind = "dbnrMandatory" /\ ev.calls = <<>>)

\* The indices of the items of a batch answer whose code is 0, in item order.
OkItems(res) == SelectSeq([i \in 1..Len(res) |-> i], LAMBDA i : res[i].Result = 0)

SetMin(S) == CHOOSE m \in S : \A x \in S : m <= x

SetMax(S) == CHOOSE m \in S : \A x \in S : x <= m

\* C16: for a non-empty list readDB issues exactly one range read with
\* offset = min(start) and length = max(start + width of the type) - offset,
\* and decodes descriptor i at buffer position start - offset with its bit;
\* the README's list [BOOL 4.2, INT 13] gives offset 4 and length 11.
C16_ReadDBPlan ==
  (ev.op = "readDB" /\ ev.in # <<>>) =>
     LET n  == Len(ev.in)
         lo == SetMin({ev.in[i].start : i \in 1..n})
         hi == SetMax({ev.in[i].start + Bytes(ev.in[i].type) : i \in 1..n})
     IN  /\ ev.calls = <<"DBRead">>
         /\ ev.plan = <<[DBNr |-> 102, offset |-> lo, length |-> hi - lo]>>
         /\ ev.res = "resolved" =>
              /\ Len(ev.answer.res) = hi - lo
              /\ Len(ev.out) = n
              /\ \A i \in 1..n :
                   ev.out[i] = [ev.in[i] EXCEPT !.value =
                                  Parser(ev.in[i].type, ev.answer.res,
                                         ev.in[i].start - lo, ev.in[i].bit)]
         /\ (n = 2 /\ ev.in[1].type = "BOOL" /\ ev.in[1].start = 4
               /\ ev.in[2].type = "INT" /\ ev.in[2].start = 13) =>
              (ev.plan[1].offset = 4 /\ ev.plan[1].length = 11)

\* The README's list, answered with the bytes 4, 5, ..., 14: bit 2 of the byte
\* 4 is set, and the bytes 13, 14 are the INT 3342.
C16_Witness ==
  /\ ev.op = "readDB" /\ ev.res = "resolved" /\ Len(ev.in) = 2
  /\ ev.in[1].type = "BOOL" /\ ev.in[1].start = 4 /\ ev.in[1].bit = 2
  /\ ev.in[2].type = "INT" /\ ev.in[2].start = 13
  /\ ev.plan[1].offset = 4 /\ ev.plan[1].length = 11
  /\ ev.answer.res[1] = 4
  /\ ev.out[1].value = JsBool(TRUE)
  /\ ev.out[2].value = JsNum(3342)

\* The items of the batch a readVars or writeVars has planned.
PlannedItems ==
  [i \in 1..Len(ev.plan) |->
     IF ev.op = "readVars" THEN ev.plan[i] ELSE ev.plan[i].item]

\* C17: the batch of readVars and writeVars has one item per descriptor, in
\* the same order, each with amount 1; a BOOL item starts at
\* byteStart * 8 + bit with the bit word length, every other item at
\* byteStart with the word length of its type; item result i is applied to
\* descriptor i.
C17_BatchPlan ==
  ev.op \in {"readVars", "writeVars"} =>
     /\ Len(PlannedItems) = Len(ev.in)
     /\ \A i \in 1..Len(ev.in) :
          LET v == ev.in[i]
              it == PlannedItems[i]
          IN  /\ it.Amount = 1
              /\ it.DBNumber = v.dbnr
              /\ v.type = "BOOL" =>
                    (it.Start = v.start * 8 + v.bit /\ it.WordLen = S7WLBit)
              /\ v.type # "BOOL" => it.Start = v.start
              /\ v.type \in {"BYTE", "CHAR"} => it.WordLen = S7WLByte
              /\ v.type \in {"WORD", "INT"} => it.WordLen = S7WLWord
              /\ v.type \in {"DWORD", "DINT"} => it.WordLen = S7WLDWord
              /\ v.type = "REAL" => it.WordLen = S7WLReal
     /\ (ev.op = "readVars" /\ ev.res = "resolved") =>
          \A i \in 1..Len(ev.in) :
             ev.out[i] = [ev.in[i] EXCEPT !.value =
                            Parser(ev.in[i].type, ev.answer.res[i].Data, 0, 0)]
     /\ (ev.op = "writeVars" /\ ev.res = "resolved") => ev.out = ev.in

\* The spec's examples in one batch: BOOL 5.2 gives start 42 with the bit
\* code, INT 13 gives start 13 with the word code; the answers differ, and
\* each descriptor carries the value of its own item.
C17_Witness ==
  /\ ev.op = "readVars" /\ ev.res = "resolved" /\ Len(ev.in) = 2
  /\ ev.in[1].type = "BOOL" /\ ev.in[1].start = 5 /\ ev.in[1].bit = 2
  /\ ev.in[2].type = "INT" /\ ev.in[2].start = 13
  /\ ev.plan[1].Start = 42 /\ ev.plan[1].WordLen = 1
  /\ ev.plan[2].Start = 13 /\ ev.plan[2].WordLen = 4
  /\ ev.answer.res[1].Data = <<254>> /\ ev.answer.res[2].Data = <<4, 5>>
  /\ ev.out[1].value = JsBool(FALSE)
  /\ ev.out[2].value = JsNum(1029)

----------------------------------------------------------------------------
(* The codec registry as functions: a value of a type is formatted, and the
   bytes are parsed back at offset 0 and at the descriptor's bit. *)

\* The bytes at the ends and in the middle of their range.
EdgeBytes == {0, 1, 127, 128, 255}

\* The numbers of 16 bits made of them.
EdgeWords == {h * 256 + l : h \in EdgeBytes, l \in EdgeBytes}

\* The same bit patterns read as INT.
EdgeInts == {IF w >= 32768 THEN w - 65536 ELSE w : w \in EdgeWords}

\* Fractions of 23 bits.
EdgeFractions == {0, 1, 1193046, 4194304, 8388607}

\* Exponents of 8 bits; 255 with the fraction 0 is Infinity (with another
\* fraction it is NaN, which is no value to compare).
EdgeExponents == {0, 1, 127, 128, 254}

\* The inputs: a type, a value representable in it, and a bit offset.
CodecInputs ==
  {[type |-> "BOOL", value |-> JsBool(b), bit |-> k] : b \in BOOLEAN, k \in 0..7}
  \cup {[type |-> "BYTE", value |-> JsNum(n), bit |-> 0] : n \in 0..255}
  \cup {[type |-> "CHAR", value |-> JsChar(c), bit |-> 0] : c \in 0..255}
  \cup {[type |-> "WORD", value |-> JsNum(n), bit |-> 0] : n \in EdgeWords}
  \cup {[type |-> "INT", value |-> JsNum(n), bit |-> 0] : n \in EdgeInts}
  \cup {[type |-> "DWORD", value |-> JsNum32(hi, lo), bit |-> 0] :
           hi \in EdgeWords, lo \in EdgeWords}
  \cup {[type |-> "DINT", value |-> JsNum32(hi, lo), bit |-> 0] :
           hi \in EdgeInts, lo \in EdgeWords}
  \cup {[type |-> "REAL", value |-> JsReal(s, e, m), bit |-> 0] :
           s \in {0, 1}, e \in EdgeExponents, m \in EdgeFractions}
  \cup {[type |-> "REAL", value |-> JsReal(s, 255, 0), bit |-> 0] : s \in {0, 1}}

InitCodec ==
  /\ opts \in IOOpts
  /\ connected = FALSE
  /\ accepting = FALSE
  /\ conns = EmptyBag
  /\ aliveCheckInterval = 0
  /\ intervals = <<>>
  /\ retryTimeout = 0
  /\ timeouts = <<>>
  /\ listeners = <<>>
  /\ ev = NoEv

\* Datatypes[d.type].formatter(d.value)
Format(d) ==
  /\ ev.op = "init"
  /\ Observe([NoEv EXCEPT !.op = "format", !.in = <<d>>,
                          !.plan = <<Formatter(d.type, d.value)>>])

\* Datatypes[type].parser(bytes, 0, bit) of the bytes just formatted
ParseBack ==
  /\ ev.op = "format"
  /\ Observe([ev EXCEPT !.op = "parse",
                        !.out = <<Parser(ev.in[1].type, ev.plan[1], 0,
                                         ev.in[1].bit)>>])

NextCodec ==
  \/ \E d \in CodecInputs : Format(d)
  \/ ParseBack

SpecCodec == InitCodec /\ [][NextCodec]_vars

\* The number of 16 bits that two bytes hold, the first being the high one.
BigEndian16(b1, b2) == b1 * 256 + b2

\* C18 as claimed: parsing the bytes the formatter has produced returns the
\* value that was formatted, for a BOOL at the descriptor's own bit offset,
\* and the bytes are as many as the type is wide (a CHAR being a character of
\* 7-bit ASCII).
C18_RoundTripAtOwnBit ==
  (ev.op = "parse" /\ (ev.in[1].type = "CHAR" => ev.in[1].value[2] < 128)) =>
     /\ Len(ev.plan[1]) = Bytes(ev.in[1].type)
     /\ ev.out[1] = ev.in[1].value

\* C18 as amended: the bytes are as many as the type is wide; the integer
\* types are big-endian (two's complement for INT and DINT) and parse back
\* to the value, and so does a REAL; a CHAR of 7-bit ASCII parses back to
\* itself, one with the code c >= 128 to the character c - 128; a BOOL is
\* formatted as the byte 1 or 0, which parses back to the value at bit
\* offset 0 and to false at every other bit offset.
C18_RoundTrip ==
  ev.op = "parse" =>
     LET d == ev.in[1]
         b == ev.plan[1]
         back == ev.out[1]
     IN  /\ Len(b) = Bytes(d.type)
         /\ d.type \in {"BYTE", "WORD", "INT", "DWORD", "DINT", "REAL"} =>
               back = d.value
         /\ d.type = "BYTE" => b = <<d.value[2]>>
         /\ d.type \in {"WORD", "INT"} =>
               BigEndian16(b[1], b[2]) = d.value[2] % 65536
         /\ d.type \in {"DWORD", "DINT"} =>
               /\ BigEndian16(b[1], b[2]) = d.value[2] % 65536
               /\ BigEndian16(b[3], b[4]) = d.value[3]
         /\ d.type = "CHAR" =>
               back = JsChar(IF d.value[2] < 128 THEN d.value[2]
                             ELSE d.value[2] - 128)
         /\ d.type = "BOOL" =>
               /\ b = <<d.value[2]>>
               /\ back = IF d.bit = 0 THEN d.value ELSE JsBool(FALSE)

C18_Witness ==
  /\ ev.op = "parse" /\ ev.in[1].type = "DINT"
  /\ ev.in[1].value = JsNum32(-1, 65408)
  /\ ev.plan[1] = <<255, 255, 255, 128>>
  /\ ev.out[1] = JsNum32(-1, 65408)

----------------------------------------------------------------------------
(* The backoff as a function: a run of consecutive failed retries of one
   autoConnect closure, for every interval from 0 ms and every maximum from
   1 ms up to MaxDelayOpt. *)

BackoffOpts ==
  [name : {"S7PLC"}, ipv4 : {TRUE},
   connectionCheckInterval : 0..MaxDelayOpt, maxRetryDelay : 1..MaxDelayOpt,
   alivePkg : {FALSE}, alivePkgCycle : {2}]

InitBackoff ==
  /\ opts \in BackoffOpts
  /\ connected = FALSE
  /\ accepting = FALSE
  /\ conns = EmptyBag
  /\ aliveCheckInterval = 0
  /\ intervals = <<>>
  /\ retryTimeout = 0
  /\ timeouts = <<>>
  /\ listeners = <<[retryDelay |-> opts.connectionCheckInterval, fresh |-> FALSE,
                     grown |-> FALSE]>>
  /\ ev = NoEv

\* One more failed retry: index.ts 123-124.
BackoffStep ==
  \E n \in Rounded(listeners[1].retryDelay) :
    LET d == Clamp(n, opts.maxRetryDelay)
    IN  /\ listeners' = [listeners EXCEPT ![1].retryDelay = d]
        /\ ev' = [NoEv EXCEPT !.op = "backoff", !.k = 1,
                              !.from = listeners[1].retryDelay, !.sched = <<d>>]
        /\ UNCHANGED <<opts, connected, accepting, conns, aliveCheckInterval,
                       intervals, retryTimeout, timeouts>>

SpecBackoff == InitBackoff /\ [][BackoffStep]_vars

\* C7 as claimed: along consecutive failed retries each new delay is strictly
\* greater than the previous one until the delay has reached maxRetryDelay,
\* and from then on it stays at maxRetryDelay.
C7_StrictlyIncreasingUntilMax ==
  ev.op = "backoff" =>
     IF ev.from < opts.maxRetryDelay
       THEN ev.sched[1] > ev.from /\ ev.sched[1] <= opts.maxRetryDelay
       ELSE ev.sched[1] = opts.maxRetryDelay

\* C7 as amended: a new delay never exceeds maxRetryDelay; from a previous
\* delay of at least 2 that is below maxRetryDelay it is strictly greater;
\* from a previous delay below 2 it may stay the same (0 stays 0, 1 becomes 1
\* or 2); from a previous delay at or above maxRetryDelay (an interval above
\* the maximum) it is maxRetryDelay.
C7_IncreasingFromTwo ==
  ev.op = "backoff" =>
     /\ ev.sched[1] <= opts.maxRetryDelay
     /\ ev.from >= opts.maxRetryDelay => ev.sched[1] = opts.maxRetryDelay
     /\ (2 <= ev.from /\ ev.from < opts.maxRetryDelay) => ev.sched[1] > ev.from
     /\ (ev.from < 2 /\ ev.from < opts.maxRetryDelay) =>
          ev.sched[1] \in ev.from..(2 * ev.from)

C7_Witness ==
  /\ ev.op = "backoff"
  /\ 2 <= ev.from /\ ev.from < opts.connectionCheckInterval * 2
  /\ ev.from > opts.connectionCheckInterval
  /\ ev.sched[1] > ev.from
  /\ ev.sched[1] < opts.maxRetryDelay

----------------------------------------------------------------------------
(* The keep-alive package: a client whose caller connects, and whose alive
   check then ticks; the ticks of a timer are counted from its start. *)

\* largest alivePkgCycle drawn
MaxCycle == 5
\* ticks of one timer that are counted
MaxTicks == 12

AliveOpts ==
  [name : {"S7PLC"}, ipv4 : {TRUE},
   connectionCheckInterval : {2}, maxRetryDelay : {4},
   alivePkg : BOOLEAN, alivePkgCycle : 1..MaxCycle]

InitAlive ==
  /\ opts \in AliveOpts
  /\ connected = FALSE
  /\ accepting = FALSE
  /\ conns = EmptyBag
  /\ aliveCheckInterval = 0
  /\ intervals = <<>>
  /\ retryTimeout = 0
  /\ timeouts = <<>>
  /\ listeners = <<>>
  /\ ev = NoEv

\* The next tick of the timer h: the first after the handshake that started
\* it, or one more than the tick before.
CountedTick ==
  \E h \in DOMAIN intervals :
    LET t == IF ev.op = "tick" THEN ev.k + 1 ELSE 1
    IN  t <= MaxTicks /\ AliveTickAt(h, t)

NextAlive ==
  \/ Connect /\ ~connected /\ conns = EmptyBag
  \/ \E c \in BagToSet(conns), ok \in BOOLEAN : HandshakeDone(c, ok)
  \/ CountedTick

SpecAlive == InitAlive /\ [][NextAlive]_vars

\* C19: with alivePkgCycle = N a status probe is issued on exactly the ticks
\* N, 2N, 3N, ... of a liveness timer, counted from its start, and on no
\* other tick; with alivePkgCycle = false no probe is ever issued.
C19_ProbeEveryNthTick ==
  ev.op = "tick" =>
     (("PlcStatus" \in {ev.calls[i] : i \in DOMAIN ev.calls})
        <=> (opts.alivePkg /\ ev.k % opts.alivePkgCycle = 0))

----------------------------------------------------------------------------
(* The liveness of autoConnect: the timers fire and the callbacks of the
   transport arrive (the event loop does not stop while a task is due); the caller
   calls autoConnect() once and does not call disconnect() after it; the host
   is a name, so that every connect() runs the lookup and the handshake; from
   some point on the PLC accepts every handshake and the lookup succeeds. *)

LiveOpts ==
  [name : {"S7PLC"}, ipv4 : {FALSE},
   connectionCheckInterval : {2}, maxRetryDelay : {4},
   alivePkg : {FALSE}, alivePkgCycle : {2}]

InitLive ==
  /\ opts \in LiveOpts
  /\ connected = FALSE
  /\ accepting = FALSE
  /\ conns = EmptyBag
  /\ aliveCheckInterval = 0
  /\ intervals = <<>>
  /\ retryTimeout = 0
  /\ timeouts = <<>>
  /\ listeners = <<>>
  /\ ev = NoEv

\* The environment: from now on the PLC accepts handshakes.
Heal ==
  /\ ~accepting
  /\ accepting' = TRUE
  /\ ev' = [NoEv EXCEPT !.op = "heal", !.was = connected]
  /\ UNCHANGED <<opts, connected, conns, aliveCheckInterval, intervals,
                 retryTimeout, timeouts, listeners>>

\* The outcomes of a lookup or a handshake that ends now.
Outcomes == IF accepting THEN {TRUE} ELSE BOOLEAN

Ticks == \E h \in DOMAIN intervals : AliveTick(h)

Fires == \E h \in DOMAIN timeouts : RetryFire(h)

Lookups == \E c \in BagToSet(conns), ok \in Outcomes : DnsDone(c, ok)

Handshakes == \E c \in BagToSet(conns), ok \in Outcomes : HandshakeDone(c, ok)

\* The event loop: while a timer is due or a callback of the transport has
\* arrived, it runs one of them.
Due == Ticks \/ Fires \/ Lookups \/ Handshakes

NextLive ==
  \/ Connect
  \/ AutoConnect /\ listeners = <<>>
  \/ Disconnect /\ listeners = <<>>
  \/ TransportLoss
  \/ Heal
  \/ Ticks
  \/ Fires
  \/ Lookups
  \/ Handshakes

SpecLive ==
  /\ InitLive
  /\ [][NextLive]_vars
  /\ WF_vars(Due)

\* C6: once autoConnect() has been called and no manual disconnect() follows,
\* the client keeps retrying: when the transport accepts handshakes from some
\* point on, the client eventually becomes connected, after a failed first
\* attempt as well as after a later connection loss.
C6_EventuallyConnected ==
  (listeners # <<>> /\ accepting) ~> connected

C6_Witness ==
  /\ listeners # <<>> /\ accepting /\ connected
  /\ ev.op = "handshake" /\ ev.by = "retry" /\ ev.res = "ok"
  /\ listeners[1].retryDelay > opts.connectionCheckInterval

====
